---------------------------- MODULE Spec2Model ----------------------------
(***************************************************************************)
(* Model of the two scripts of just_for_fun:                               *)
(*   least_squares.py   - read_data, least_squares_fit,                    *)
(*                        calculate_sensitivity,                           *)
(*                        calculate_nonlinearity_error, process_data_file, *)
(*                        main                                             *)
(*   generate_a_tree.py - generate_tree                                    *)
(*                                                                         *)
(* Numbers are rationals <<n, d>> (d > 0, lowest terms).  The variable     *)
(* prec selects the arithmetic every numpy operation is carried out in:    *)
(* prec = 0 is exact real arithmetic, prec = p > 0 is binary floating      *)
(* point with a p-bit significand and round-to-nearest-even (the code      *)
(* runs with p = 53; the exponent range is not modelled).                  *)
(***************************************************************************)
EXTENDS Integers, Sequences, FiniteSets, TLC

VARIABLES
    prec,                \* significand width of the arithmetic, 0 = exact
    file,                \* the lines of the input file (each a sequence of characters)
    readable,            \* whether open(file_path) succeeds
    no_plot,             \* args.no_plot
    pos,                 \* number of lines read_data has consumed
    x_values, y_values,  \* read_data's lists, then the arrays x, y
    slope, intercept,    \* least_squares_fit's results (None until computed)
    sensitivity,         \* calculate_sensitivity's result
    nonlinearity_error,  \* calculate_nonlinearity_error's result
    result,              \* what process_data_file returned to main
    out,                 \* what has been printed, one tag per message
    stages,              \* the pipeline stages started so far, in order
    exit_status,         \* the process's exit status, -1 while it runs
    pc,                  \* position of the run
    fs,                  \* the directory tree: path -> "dir" | "file"
    max_depth,           \* generate_tree's max_depth
    structure_tree,      \* generate_tree's result, a sequence of lines
    tpc                  \* position of the tree script

vars == <<prec, file, readable, no_plot, pos, x_values, y_values, slope, intercept,
          sensitivity, nonlinearity_error, result, out, stages, exit_status, pc,
          fs, max_depth, structure_tree, tpc>>

lsqVars == <<prec, file, readable, no_plot, pos, x_values, y_values, slope, intercept,
             sensitivity, nonlinearity_error, result, out, stages, exit_status, pc>>

treeVars == <<fs, max_depth, structure_tree, tpc>>

None == <<>>

---------------------------------------------------------------------------
(* Bounds of the model.                                                    *)

\* lines in an input file
MaxLines == 3
\* copies of one point in a generated sample set
MaxRep == 6
\* copies of one point in a generated floating-point sample set
MaxRepFl == 3
\* significand bits of the floating-point specification
FloatPrec == 3
\* depth of the generated directory trees below their root
MaxTreeDepth == 2

---------------------------------------------------------------------------
(* Rational arithmetic.                                                    *)

Abs(n) == IF n < 0 THEN -n ELSE n

RECURSIVE GCD(_, _)
GCD(a, b) == IF b = 0 THEN a ELSE GCD(b, a % b)

\* n/d in lowest terms with a positive denominator; x/0 is kept as NaN = <<0, 0>>
Norm(n, d) ==
    IF d = 0 THEN <<0, 0>>
    ELSE LET g == GCD(Abs(n), Abs(d))
             s == IF d < 0 THEN -1 ELSE 1
         IN  <<s * (n \div g), Abs(d) \div g>>

Q(n) == <<n, 1>>
NaN == <<0, 0>>
IsNaN(a) == a[2] = 0

RLess(a, b) == a[1] * b[2] < b[1] * a[2]
RAbs(a) == <<Abs(a[1]), a[2]>>

RECURSIVE Pow2(_)
Pow2(k) == IF k = 0 THEN 1 ELSE 2 * Pow2(k - 1)

\* the integer nearest to n/d (n, d > 0), ties to the even one
RoundHalfEven(n, d) ==
    LET m == n \div d
        r == n % d
    IN  IF 2 * r > d \/ (2 * r = d /\ m % 2 = 1) THEN m + 1 ELSE m

\* n/d > 0 rounded to a p-bit significand
RECURSIVE FlRound(_, _, _)
FlRound(n, d, p) ==
    IF n >= Pow2(p) * d
    THEN LET h == FlRound(n, 2 * d, p) IN Norm(2 * h[1], h[2])
    ELSE IF n < Pow2(p - 1) * d
    THEN LET h == FlRound(2 * n, d, p) IN Norm(h[1], 2 * h[2])
    ELSE Q(RoundHalfEven(n, d))

\* the value an arithmetic operation stores for the exact result q
Rnd(q) ==
    IF prec = 0 \/ IsNaN(q) \/ q[1] = 0 THEN q
    ELSE LET h == FlRound(Abs(q[1]), q[2], prec)
         IN  IF q[1] < 0 THEN <<-h[1], h[2]>> ELSE h

\* exact sum, difference, product and quotient
RAdd(a, b) == Norm(a[1] * b[2] + b[1] * a[2], a[2] * b[2])
RSub(a, b) == Norm(a[1] * b[2] - b[1] * a[2], a[2] * b[2])
RMul(a, b) == Norm(a[1] * b[1], a[2] * b[2])
RDiv(a, b) == Norm(a[1] * b[2], a[2] * b[1])

\* the four operations as the arithmetic in use carries them out
Add(a, b) == Rnd(RAdd(a, b))
Sub(a, b) == Rnd(RSub(a, b))
Mul(a, b) == Rnd(RMul(a, b))
Div(a, b) == Rnd(RDiv(a, b))

---------------------------------------------------------------------------
(* numpy reductions and element-wise operations on arrays (sequences).     *)

RECURSIVE SumFrom(_, _, _, _)
\* acc + a[i] + a[i + step] + ... , added left to right
SumFrom(a, i, step, acc) ==
    IF i > Len(a) THEN acc ELSE SumFrom(a, i + step, step, Add(acc, a[i]))

\* the eight partial sums of the unrolled loop, combined pairwise
Combine8(r) ==
    Add(Add(Add(r[1], r[2]), Add(r[3], r[4])), Add(Add(r[5], r[6]), Add(r[7], r[8])))

\* the unrolled part of the summation over the first m elements (m a multiple of 8)
Unrolled(a, m) ==
    Combine8([j \in 1..8 |-> SumFrom(SubSeq(a, 1, m), j + 8, 8, a[j])])

\* np.sum of a float array: a plain loop below 8 elements, otherwise eight
\* strided partial sums combined pairwise, then the remaining elements
np_sum(a) ==
    IF Len(a) < 8 THEN SumFrom(a, 1, 1, Q(0))
    ELSE SumFrom(a, Len(a) - (Len(a) % 8) + 1, 1, Unrolled(a, Len(a) - (Len(a) % 8)))

np_mean(a) == Div(np_sum(a), Q(Len(a)))

RECURSIVE FoldMax(_, _, _)
FoldMax(a, i, acc) ==
    IF i > Len(a) THEN acc
    ELSE FoldMax(a, i + 1, IF RLess(acc, a[i]) THEN a[i] ELSE acc)

RECURSIVE FoldMin(_, _, _)
FoldMin(a, i, acc) ==
    IF i > Len(a) THEN acc
    ELSE FoldMin(a, i + 1, IF RLess(a[i], acc) THEN a[i] ELSE acc)

np_max(a) == FoldMax(a, 2, a[1])
np_min(a) == FoldMin(a, 2, a[1])

---------------------------------------------------------------------------
(* least_squares.py: the fitting engine.                                   *)

RECURSIVE ArraySubScalar(_, _, _)
\* a - m for an array a and a scalar m, from index i on
ArraySubScalar(a, m, i) ==
    IF i > Len(a) THEN <<>> ELSE <<Sub(a[i], m)>> \o ArraySubScalar(a, m, i + 1)

RECURSIVE ArrayMul(_, _, _)
\* a * b element by element, from index i on
ArrayMul(a, b, i) ==
    IF i > Len(a) THEN <<>> ELSE <<Mul(a[i], b[i])>> \o ArrayMul(a, b, i + 1)

\* InterceptOf with the sign of the slope term flipped
InterceptOfPlus(x_mean, y_mean, k) == Add(y_mean, Mul(k, x_mean))

\* intercept = y_mean - slope * x_mean
InterceptOf(x_mean, y_mean, k) == Sub(y_mean, Mul(k, x_mean))

\* SlopeOf with the operands of the division swapped
SlopeOfSwapped(numerator, denominator) == Div(denominator, numerator)

\* slope = numerator / denominator
SlopeOf(numerator, denominator) == Div(numerator, denominator)

\* if denominator == 0: sys.exit(1); otherwise slope and intercept
FitFromSums(x_mean, y_mean, numerator, denominator) ==
    IF denominator[1] = 0
    THEN [rejected |-> TRUE, slope |-> None, intercept |-> None]
    ELSE [rejected |-> FALSE,
          slope |-> SlopeOf(numerator, denominator),
          intercept |-> InterceptOf(x_mean, y_mean, SlopeOf(numerator, denominator))]

\* numerator = sum((x - x_mean) * (y - y_mean)), denominator = sum((x - x_mean) ** 2)
FitFromCentered(dx, dy, x_mean, y_mean) ==
    FitFromSums(x_mean, y_mean, np_sum(ArrayMul(dx, dy, 1)), np_sum(ArrayMul(dx, dx, 1)))

FitFromMeans(x, y, x_mean, y_mean) ==
    FitFromCentered(ArraySubScalar(x, x_mean, 1), ArraySubScalar(y, y_mean, 1),
                    x_mean, y_mean)

\* slope and intercept of the best-fit line, or rejected (sys.exit(1)) when
\* the denominator is zero
least_squares_fit(x, y) == FitFromMeans(x, y, np_mean(x), np_mean(y))

calculate_sensitivity(x, y, k) == RAbs(k)

RECURSIVE LineValues(_, _, _, _)
\* slope * x + intercept element by element, from index i on
LineValues(x, k, b, i) ==
    IF i > Len(x) THEN <<>> ELSE <<Add(Mul(k, x[i]), b)>> \o LineValues(x, k, b, i + 1)

\* y_fit = slope * x + intercept
y_fit(x, k, b) == LineValues(x, k, b, 1)

RECURSIVE ArraySub(_, _, _)
\* a - b element by element, from index i on
ArraySub(a, b, i) ==
    IF i > Len(a) THEN <<>> ELSE <<Sub(a[i], b[i])>> \o ArraySub(a, b, i + 1)

RECURSIVE np_abs(_)
np_abs(a) == IF a = <<>> THEN <<>> ELSE <<RAbs(Head(a))>> \o np_abs(Tail(a))

\* Deviations without np.abs
SignedDeviations(y, fit) == ArraySub(y, fit, 1)

\* deviations = np.abs(y - y_fit)
Deviations(y, fit) == np_abs(ArraySub(y, fit, 1))

\* NonlinearityOf without the zero-range guard: the division is always made
NonlinearityOfUnguarded(max_deviation, y_range) ==
    [value |-> Mul(Div(max_deviation, y_range), Q(100)), warned |-> FALSE]

\* the y-range decides: 0 with a warning when it is zero, otherwise the percentage
NonlinearityOf(max_deviation, y_range) ==
    IF y_range[1] = 0
    THEN [value |-> Q(0), warned |-> TRUE]
    ELSE [value |-> Mul(Div(max_deviation, y_range), Q(100)), warned |-> FALSE]

\* RangeOf taking the range of x, as the function's docstring words it
RangeOfX(x, y) == Sub(np_max(x), np_min(x))

\* the range the maximum deviation is divided by: np.max(y) - np.min(y)
RangeOf(x, y) == Sub(np_max(y), np_min(y))

\* 100 * max|y - y_fit| / (max(y) - min(y)); 0 with a warning when the
\* y-range is zero
calculate_nonlinearity_error(x, y, k, b) ==
    NonlinearityOf(np_max(Deviations(y, y_fit(x, k, b))), RangeOf(x, y))

---------------------------------------------------------------------------
(* least_squares.py: read_data's parsing of one line.                      *)

Whitespace == {" "}
Digits == {"0", "1", "2", "3", "4", "5", "6", "7", "8", "9"}

DigitVal(c) ==
    CASE c = "0" -> 0 [] c = "1" -> 1 [] c = "2" -> 2 [] c = "3" -> 3 [] c = "4" -> 4
      [] c = "5" -> 5 [] c = "6" -> 6 [] c = "7" -> 7 [] c = "8" -> 8 [] c = "9" -> 9

\* str.strip(): whitespace removed from both ends
RECURSIVE strip(_)
strip(s) ==
    IF s = <<>> THEN s
    ELSE IF Head(s) \in Whitespace THEN strip(Tail(s))
    ELSE IF s[Len(s)] \in Whitespace THEN strip(SubSeq(s, 1, Len(s) - 1))
    ELSE s

\* str.split(sep): the fields between the separators, empty ones included
RECURSIVE split(_, _)
split(s, sep) ==
    IF \E i \in 1..Len(s) : s[i] = sep
    THEN LET i == CHOOSE j \in 1..Len(s) : s[j] = sep /\ \A h \in 1..(j - 1) : s[h] # sep
         IN  <<SubSeq(s, 1, i - 1)>> \o split(SubSeq(s, i + 1, Len(s)), sep)
    ELSE <<s>>

RECURSIVE DecimalValue(_, _)
\* the integer written by the digits s, after the digits already read as acc
DecimalValue(s, acc) ==
    IF s = <<>> THEN acc ELSE DecimalValue(Tail(s), 10 * acc + DigitVal(Head(s)))

RECURSIVE Pow10(_)
Pow10(k) == IF k = 0 THEN 1 ELSE 10 * Pow10(k - 1)

\* float(text): [sign] digits [. digits] with a digit somewhere, surrounding
\* whitespace ignored; anything else is a ValueError (ok = FALSE)
float(text) ==
    LET t == strip(text)
        signed == t # <<>> /\ Head(t) \in {"+", "-"}
        u == IF signed THEN Tail(t) ELSE t
        parts == split(u, ".")
        ip == parts[1]
        fp == IF Len(parts) = 2 THEN parts[2] ELSE <<>>
        wellformed == /\ Len(parts) <= 2
                      /\ \A i \in 1..Len(ip) : ip[i] \in Digits
                      /\ \A i \in 1..Len(fp) : fp[i] \in Digits
                      /\ Len(ip) + Len(fp) > 0
        mag == Norm(DecimalValue(ip \o fp, 0), Pow10(Len(fp)))
    IN  IF ~wellformed THEN [ok |-> FALSE, value |-> None]
        ELSE [ok |-> TRUE,
              value |-> Rnd(IF signed /\ Head(t) = "-" THEN <<-mag[1], mag[2]>> ELSE mag)]

\* ParseLine that takes the first two fields and ignores any further ones
ParseLineFirstTwo(line) ==
    LET fields == split(line, ",")
        fx == float(fields[1])
        fy == float(fields[2])
    IN  IF Len(fields) >= 2 /\ fx.ok /\ fy.ok
        THEN [ok |-> TRUE, x |-> fx.value, y |-> fy.value]
        ELSE [ok |-> FALSE, x |-> None, y |-> None]

\* x, y = map(float, line.split(',')): exactly two fields, both floats
ParseLine(line) ==
    LET fields == split(line, ",")
        fx == float(fields[1])
        fy == float(fields[2])
    IN  IF Len(fields) = 2 /\ fx.ok /\ fy.ok
        THEN [ok |-> TRUE, x |-> fx.value, y |-> fy.value]
        ELSE [ok |-> FALSE, x |-> None, y |-> None]

---------------------------------------------------------------------------
(* Inputs.                                                                 *)

\* the lines an input file is made of: well-formed, blank and malformed
Lines ==
    { <<"1", ",", "2">>,                \* 1,2
      <<"2", ",", "2">>,                \* 2,2
      <<" ", "1", " ", ",", " ", "1">>, \* padded 1,1
      <<"3", ",", "1", ".", "5">>,      \* 3,1.5
      <<"-", "1", ",", "0">>,           \* -1,0
      <<>>,                             \* empty line
      <<" ", " ">>,                     \* whitespace only
      <<"1">>,                          \* one field
      <<"1", ",", "2", ",", "1">>,      \* three fields
      <<"x", ",", "1">>,                \* first field no number
      <<"1", ",", "-">> }               \* second field no number

Files == UNION {[1..n -> Lines] : n \in 0..MaxLines}

\* c copies of the point p
Run(p, c) == [i \in 1..c |-> p]

\* sample sets of up to three distinct points of Pts, each repeated up to maxrep times
Samples(Pts, maxrep) ==
    { Run(Pts[i], a) \o Run(Pts[j], b) \o Run(Pts[k], c) :
        <<i, j, k>> \in {t \in (1..Len(Pts)) \X (1..Len(Pts)) \X (1..Len(Pts)) :
                            t[1] < t[2] /\ t[2] < t[3]},
        <<a, b, c>> \in (0..maxrep) \X (0..maxrep) \X (0..maxrep) }

\* the points the generated sample sets are made of
GridPoints ==
    << <<0, 0>>, <<0, 1>>, <<1, 0>>, <<1, 1>>, <<2, 0>>, <<2, 2>> >>

FlPoints == << <<1, 0>>, <<1, 1>>, <<3, 0>>, <<3, 1>>, <<7, 0>>, <<7, 1>> >>

DigitChar(n) ==
    CASE n = 0 -> "0" [] n = 1 -> "1" [] n = 2 -> "2" [] n = 3 -> "3" [] n = 4 -> "4"
      [] n = 5 -> "5" [] n = 6 -> "6" [] n = 7 -> "7" [] n = 8 -> "8" [] n = 9 -> "9"

\* the file that holds the points of a sample set, one "x,y" line each
FileOf(sample) ==
    [i \in 1..Len(sample) |-> <<DigitChar(sample[i][1]), ",", DigitChar(sample[i][2])>>]

---------------------------------------------------------------------------
(* least_squares.py: main, process_data_file and read_data as steps.       *)

\* main calls process_data_file, which calls read_data
Main ==
    /\ pc = "main"
    /\ pc' = "open"
    /\ stages' = Append(stages, "load")
    /\ UNCHANGED <<prec, file, readable, no_plot, pos, x_values, y_values, slope,
                   intercept, sensitivity, nonlinearity_error, result, out,
                   exit_status>>
    /\ UNCHANGED treeVars

\* open(file_path): a failure is reported and ends the process with status 1
Open ==
    /\ pc = "open"
    /\ IF readable
       THEN /\ pc' = "read"
            /\ UNCHANGED <<out, exit_status>>
       ELSE /\ out' = Append(out, "err_read")
            /\ exit_status' = 1
            /\ pc' = "exit"
    /\ UNCHANGED <<prec, file, readable, no_plot, pos, x_values, y_values, slope,
                   intercept, sensitivity, nonlinearity_error, result, stages>>
    /\ UNCHANGED treeVars

\* one iteration of `for line in f`
ReadLine ==
    /\ pc = "read"
    /\ pos < Len(file)
    /\ pos' = pos + 1
    /\ LET line == strip(file[pos + 1])
           p == ParseLine(line)
       IN  IF line = <<>>
           THEN UNCHANGED <<x_values, y_values, out>>
           ELSE IF p.ok
           THEN /\ x_values' = Append(x_values, p.x)
                /\ y_values' = Append(y_values, p.y)
                /\ UNCHANGED out
           ELSE /\ out' = Append(out, "warn_parse")
                /\ UNCHANGED <<x_values, y_values>>
    /\ UNCHANGED <<prec, file, readable, no_plot, slope, intercept, sensitivity,
                   nonlinearity_error, result, stages, exit_status, pc>>
    /\ UNCHANGED treeVars

\* the loop ends and read_data returns the arrays
ReadDone ==
    /\ pc = "read"
    /\ pos = Len(file)
    /\ pc' = "loaded"
    /\ UNCHANGED <<prec, file, readable, no_plot, pos, x_values, y_values, slope,
                   intercept, sensitivity, nonlinearity_error, result, out, stages,
                   exit_status>>
    /\ UNCHANGED treeVars

\* CheckPoints that reports too few points but does not return
CheckPointsNoReturn ==
    /\ pc = "loaded"
    /\ out' = IF Len(x_values) < 2 THEN Append(out, "err_points") ELSE out
    /\ pc' = "fit"
    /\ UNCHANGED <<prec, file, readable, no_plot, pos, x_values, y_values, slope,
                   intercept, sensitivity, nonlinearity_error, result, stages,
                   exit_status>>
    /\ UNCHANGED treeVars

\* if len(x) < 2: print the error and return (None)
CheckPoints ==
    /\ pc = "loaded"
    /\ IF Len(x_values) < 2
       THEN /\ out' = Append(out, "err_points")
            /\ pc' = "returned"
       ELSE /\ pc' = "fit"
            /\ UNCHANGED out
    /\ UNCHANGED <<prec, file, readable, no_plot, pos, x_values, y_values, slope,
                   intercept, sensitivity, nonlinearity_error, result, stages,
                   exit_status>>
    /\ UNCHANGED treeVars

\* slope, intercept = least_squares_fit(x, y)
Fit ==
    /\ pc = "fit"
    /\ stages' = Append(stages, "fit")
    /\ LET r == least_squares_fit(x_values, y_values)
       IN  IF r.rejected
           THEN /\ out' = Append(out, "err_xvar")
                /\ exit_status' = 1
                /\ pc' = "exit"
                /\ UNCHANGED <<slope, intercept>>
           ELSE /\ slope' = r.slope
                /\ intercept' = r.intercept
                /\ pc' = "sensitivity"
                /\ UNCHANGED <<out, exit_status>>
    /\ UNCHANGED <<prec, file, readable, no_plot, pos, x_values, y_values,
                   sensitivity, nonlinearity_error, result>>
    /\ UNCHANGED treeVars

\* sensitivity = calculate_sensitivity(x, y, slope)
Sensitivity ==
    /\ pc = "sensitivity"
    /\ stages' = Append(stages, "sensitivity")
    /\ sensitivity' = calculate_sensitivity(x_values, y_values, slope)
    /\ pc' = "nonlinearity"
    /\ UNCHANGED <<prec, file, readable, no_plot, pos, x_values, y_values, slope,
                   intercept, nonlinearity_error, result, out, exit_status>>
    /\ UNCHANGED treeVars

\* nonlinearity_error = calculate_nonlinearity_error(x, y, slope, intercept)
Nonlinearity ==
    /\ pc = "nonlinearity"
    /\ stages' = Append(stages, "nonlinearity_error")
    /\ LET r == calculate_nonlinearity_error(x_values, y_values, slope, intercept)
       IN  /\ nonlinearity_error' = r.value
           /\ out' = IF r.warned THEN Append(out, "warn_range") ELSE out
    /\ pc' = "report"
    /\ UNCHANGED <<prec, file, readable, no_plot, pos, x_values, y_values, slope,
                   intercept, sensitivity, result, exit_status>>
    /\ UNCHANGED treeVars

\* the printed report, the plot, and the return of the four results
Report ==
    /\ pc = "report"
    /\ stages' = Append(stages, "report")
    /\ out' = Append(out, "report")
    /\ result' = <<slope, intercept, sensitivity, nonlinearity_error>>
    /\ pc' = "returned"
    /\ UNCHANGED <<prec, file, readable, no_plot, pos, x_values, y_values, slope,
                   intercept, sensitivity, nonlinearity_error, exit_status>>
    /\ UNCHANGED treeVars

\* back in main: the saved-image message when there is a result, then the
\* normal end of the process
MainReturn ==
    /\ pc = "returned"
    /\ out' = IF result # None /\ ~no_plot THEN Append(out, "saved") ELSE out
    /\ exit_status' = 0
    /\ pc' = "exit"
    /\ UNCHANGED <<prec, file, readable, no_plot, pos, x_values, y_values, slope,
                   intercept, sensitivity, nonlinearity_error, result, stages>>
    /\ UNCHANGED treeVars

IdleTree ==
    /\ fs = <<>>
    /\ max_depth = 0
    /\ structure_tree = <<>>
    /\ tpc = "idle"

\* the state in which main starts: nothing read, nothing computed
Fresh ==
    /\ pos = 0
    /\ x_values = <<>>
    /\ y_values = <<>>
    /\ slope = None
    /\ intercept = None
    /\ sensitivity = None
    /\ nonlinearity_error = None
    /\ result = None
    /\ out = <<>>
    /\ stages = <<>>
    /\ exit_status = -1

\* the state in which read_data has returned the points of a sample set
Loaded(sample) ==
    /\ file = FileOf(sample)
    /\ readable = TRUE
    /\ pos = Len(sample)
    /\ x_values = [i \in 1..Len(sample) |-> float(<<DigitChar(sample[i][1])>>).value]
    /\ y_values = [i \in 1..Len(sample) |-> float(<<DigitChar(sample[i][2])>>).value]
    /\ slope = None
    /\ intercept = None
    /\ sensitivity = None
    /\ nonlinearity_error = None
    /\ result = None
    /\ out = <<>>
    /\ stages = <<"load">>
    /\ exit_status = -1
    /\ pc = "loaded"

Init ==
    /\ prec = 0
    /\ \/ readable = TRUE /\ file \in Files
       \/ readable = FALSE /\ file = <<>>
    /\ no_plot \in BOOLEAN
    /\ Fresh
    /\ pc = "main"
    /\ IdleTree

Next ==
    \/ Main
    \/ Open
    \/ ReadLine
    \/ ReadDone
    \/ CheckPoints
    \/ Fit
    \/ Sensitivity
    \/ Nonlinearity
    \/ Report
    \/ MainReturn

\* a run of main on an input file, in exact arithmetic
Spec == Init /\ [][Next]_vars

InitFit ==
    /\ prec = 0
    /\ no_plot = FALSE
    /\ \E sample \in Samples(GridPoints, MaxRep) : Loaded(sample)
    /\ IdleTree

NextFit ==
    \/ CheckPoints
    \/ Fit
    \/ Sensitivity
    \/ Nonlinearity
    \/ Report
    \/ MainReturn

\* the run from the loaded sample set on, in exact arithmetic
SpecFit == InitFit /\ [][NextFit]_vars

InitFl ==
    /\ prec = FloatPrec
    /\ no_plot = FALSE
    /\ \E sample \in Samples(FlPoints, MaxRepFl) : Loaded(sample)
    /\ IdleTree

\* the run from the loaded sample set on, in floating-point arithmetic
SpecFl == InitFl /\ [][NextFit]_vars

---------------------------------------------------------------------------
(* generate_a_tree.py.  A path is the sequence of its components, the root *)
(* being <<"r">>; fs maps every existing path to "dir" or "file".          *)

\* the entry names of the generated trees, in Python's string order
Names == <<"a", "b">>

Root == <<"r">>

NameRank(n) == CHOOSE i \in 1..Len(Names) : Names[i] = n

RECURSIVE SubTrees(_, _)
RECURSIVE Combos(_, _, _)
\* the ways to fill the directory p with entries named names, d levels deep
Combos(p, names, d) ==
    IF names = <<>> THEN {<<>>}
    ELSE {t @@ rest : t \in {<<>>} \cup SubTrees(Append(p, Head(names)), d - 1),
                      rest \in Combos(p, Tail(names), d)}

\* the trees rooted at p with at most d levels below p
SubTrees(p, d) ==
    {p :> "file"} \cup
    (IF d = 0 THEN {p :> "dir"}
     ELSE {(p :> "dir") @@ t : t \in Combos(p, Names, d)})

os_path_isdir(path) == path \in DOMAIN fs /\ fs[path] = "dir"

os_path_basename(path) == path[Len(path)]

\* os.listdir(path): the names of the entries of path, in no particular order
os_listdir(path) == {Names[i] : i \in {j \in 1..Len(Names) : Append(path, Names[j]) \in DOMAIN fs}}

RECURSIVE sorted(_)
\* sorted(names): ascending
sorted(S) ==
    IF S = {} THEN <<>>
    ELSE LET m == CHOOSE n \in S : \A o \in S : NameRank(n) <= NameRank(o)
         IN  <<m>> \o sorted(S \ {m})

\* DepthReached that lets one more level through
DepthReachedLate(depth, maxd) == depth > maxd

\* if depth >= max_depth: return ""
DepthReached(depth, maxd) == depth >= maxd

\* f"{'  ' * depth}- **{basename}/**\n" and f"{'  ' * depth}- {basename}\n"
TreeLine(path, depth, isdir) ==
    [indent |-> IF depth < 0 THEN 0 ELSE 2 * depth,
     name |-> os_path_basename(path),
     dir |-> isdir]

RECURSIVE generate_tree(_, _, _)
RECURSIVE Children(_, _, _, _)
\* the loop over sorted(os.listdir(path)), concatenating the subtrees
Children(path, names, maxd, depth) ==
    IF names = <<>> THEN <<>>
    ELSE generate_tree(Append(path, Head(names)), maxd, depth)
             \o Children(path, Tail(names), maxd, depth)

generate_tree(path, maxd, depth) ==
    IF DepthReached(depth, maxd) THEN <<>>
    ELSE IF os_path_isdir(path)
    THEN <<TreeLine(path, depth, TRUE)>>
             \o Children(path, sorted(os_listdir(path)), maxd, depth + 1)
    ELSE <<TreeLine(path, depth, FALSE)>>

\* tree = generate_tree(root_dir, max_depth)
GenerateTree ==
    /\ tpc = "start"
    /\ structure_tree' = generate_tree(Root, max_depth, 0)
    /\ tpc' = "done"
    /\ UNCHANGED <<fs, max_depth>>
    /\ UNCHANGED lsqVars

IdleLsq ==
    /\ prec = 0
    /\ file = <<>>
    /\ readable = TRUE
    /\ no_plot = FALSE
    /\ Fresh
    /\ pc = "idle"

InitTree ==
    /\ fs \in SubTrees(Root, MaxTreeDepth)
    /\ max_depth \in -1..(MaxTreeDepth + 2)
    /\ structure_tree = <<>>
    /\ tpc = "start"
    /\ IdleLsq

NextTree == GenerateTree

\* generate_tree applied to a directory tree
SpecTree == InitTree /\ [][NextTree]_vars

---------------------------------------------------------------------------
(* Properties of a run of main (specification Spec).                       *)

Range(seq) == {seq[i] : i \in 1..Len(seq)}

\* at least two distinct values in the array
TwoDistinct(a) == \E i, j \in 1..Len(a) : a[i] # a[j]

\* at least two elements, all equal
AllSame(a) == Len(a) >= 2 /\ \A i, j \in 1..Len(a) : a[i] = a[j]

\* C1: whenever read_data yields fewer than 2 valid points from a readable
\* file, the run reports the error and the process ends with a non-zero
\* exit status.
C1_FewPointsExitNonZero ==
    (pc = "exit" /\ readable /\ Len(x_values) < 2)
        => ("err_points" \in Range(out) /\ exit_status # 0)

ExpectedPoint(line) ==
    CASE line = <<"1", ",", "2">> -> <<Q(1), Q(2)>>
      [] line = <<"2", ",", "2">> -> <<Q(2), Q(2)>>
      [] line = <<" ", "1", " ", ",", " ", "1">> -> <<Q(1), Q(1)>>
      [] line = <<"3", ",", "1", ".", "5">> -> <<Q(3), <<3, 2>> >>
      [] line = <<"-", "1", ",", "0">> -> <<Q(-1), Q(0)>>
      [] OTHER -> None

RECURSIVE ExpectedPoints(_)
\* the points of the well-formed lines, in file order
ExpectedPoints(lines) ==
    IF lines = <<>> THEN <<>>
    ELSE (IF ExpectedPoint(Head(lines)) = None THEN <<>>
          ELSE <<ExpectedPoint(Head(lines))>>) \o ExpectedPoints(Tail(lines))

\* C8: read_data keeps len(x) = len(y) after every line; the two lists hold
\* exactly the points of the well-formed lines read so far, in file order
\* (blank and malformed lines add to neither); and every line is processed,
\* whatever malformed lines came before it.
C8_ReadDataPairsLines ==
    /\ Len(x_values) = Len(y_values)
    /\ [i \in 1..Len(x_values) |-> <<x_values[i], y_values[i]>>]
           = ExpectedPoints(SubSeq(file, 1, pos))
    /\ (readable /\ pc \notin {"main", "open", "read"}) => pos = Len(file)

\* read_data has returned after a malformed line that was followed by a
\* well-formed one
C8_Witness ==
    /\ pc = "loaded"
    /\ \E i, j \in 1..Len(file) :
          /\ i < j
          /\ strip(file[i]) # <<>>
          /\ ExpectedPoint(file[i]) = None
          /\ ExpectedPoint(file[j]) # None
    /\ Len(x_values) >= 1

StageOrder == <<"load", "fit", "sensitivity", "nonlinearity_error", "report">>

\* C9: the stages run at most once each and only in the order load, fit,
\* sensitivity, nonlinearity_error, report; the fit is not started with fewer
\* than 2 points, sensitivity and nonlinearity_error need a fit that returned
\* a slope and intercept, and the report is not reached after a load failure
\* or a rejected fit.
C9_StagesInOrder ==
    /\ Len(stages) <= Len(StageOrder)
    /\ stages = SubSeq(StageOrder, 1, Len(stages))
    /\ "fit" \in Range(stages) => (readable /\ Len(x_values) >= 2)
    /\ "sensitivity" \in Range(stages) => (slope # None /\ intercept # None)
    /\ "report" \in Range(stages)
          => /\ readable
             /\ Len(x_values) >= 2
             /\ Range(out) \cap {"err_read", "err_points", "err_xvar"} = {}
    /\ (Range(out) \cap {"err_read", "err_points", "err_xvar"} # {})
          => "report" \notin Range(stages)

\* a run that went through all five stages and ended
C9_Witness ==
    /\ pc = "exit"
    /\ stages = StageOrder
    /\ exit_status = 0

---------------------------------------------------------------------------
(* Properties of the fitting engine (specification SpecFit), stated in     *)
(* exact rational arithmetic.                                              *)

\* y[i] - (slope * x[i] + intercept)
Residual(i) == RSub(y_values[i], RAdd(RMul(slope, x_values[i]), intercept))

RECURSIVE ResidualSum(_)
\* the sum of the first n residuals
ResidualSum(n) == IF n = 0 THEN Q(0) ELSE RAdd(ResidualSum(n - 1), Residual(n))

Fitted == pc \in {"sensitivity", "nonlinearity", "report", "returned", "exit"}

\* C4: for a sample set with at least two distinct x-values, least_squares_fit
\* returns a slope and intercept, and the residuals y[i] - (slope * x[i] +
\* intercept) sum to zero.
C4_ResidualsSumToZero ==
    (Fitted /\ TwoDistinct(x_values))
        => /\ slope # None
           /\ intercept # None
           /\ ResidualSum(Len(x_values)) = Q(0)

\* a fit whose residuals are not all zero
C4_Witness ==
    /\ pc = "sensitivity"
    /\ TwoDistinct(x_values)
    /\ \E i \in 1..Len(x_values) : Residual(i) # Q(0)

\* the line through the points number i and j (x[i] # x[j])
LineSlope(i, j) ==
    RDiv(RSub(y_values[j], y_values[i]), RSub(x_values[j], x_values[i]))
LineIntercept(i, j) == RSub(y_values[i], RMul(LineSlope(i, j), x_values[i]))

\* every point lies on the line y = a * x + b
AllOnLine(a, b) ==
    \A i \in 1..Len(x_values) : y_values[i] = RAdd(RMul(a, x_values[i]), b)

\* the first point whose x differs from that of point 1
Other == CHOOSE j \in 1..Len(x_values) :
            /\ x_values[j] # x_values[1]
            /\ \A h \in 1..(j - 1) : x_values[h] = x_values[1]

\* the sample set has two distinct x-values and all its points on one line
Collinear ==
    /\ TwoDistinct(x_values)
    /\ AllOnLine(LineSlope(1, Other), LineIntercept(1, Other))

MaxAbsResidual ==
    CHOOSE m \in {RAbs(Residual(i)) : i \in 1..Len(x_values)} :
        \A i \in 1..Len(x_values) : ~RLess(m, RAbs(Residual(i)))
YRange ==
    LET hi == CHOOSE m \in Range(y_values) : \A v \in Range(y_values) : ~RLess(m, v)
        lo == CHOOSE m \in Range(y_values) : \A v \in Range(y_values) : ~RLess(v, m)
    IN  RSub(hi, lo)

Measured == pc = "report" /\ TwoDistinct(x_values) /\ TwoDistinct(y_values)

\* nonlinearity_error = 100 * (max absolute residual) / (max(y) - min(y)),
\* not negative, and positive as soon as some residual is not zero
NonlinearityIsTheRatio ==
    /\ ~RLess(nonlinearity_error, Q(0))
    /\ RMul(nonlinearity_error, YRange) = RMul(Q(100), MaxAbsResidual)
    /\ (\E i \in 1..Len(x_values) : Residual(i) # Q(0)) => RLess(Q(0), nonlinearity_error)

Scales == {<<-1, 1>>, <<3, 1>>, <<1, 2>>}

RECURSIVE ScaleArray(_, _, _)
\* c * a, from index i on
ScaleArray(c, a, i) ==
    IF i > Len(a) THEN <<>> ELSE <<RMul(c, a[i])>> \o ScaleArray(c, a, i + 1)

\* the nonlinearity error and the fitted values of the pipeline on (x, y)
PipelineOf(f, x, y) ==
    [rejected |-> f.rejected,
     error |-> calculate_nonlinearity_error(x, y, f.slope, f.intercept).value,
     fitted |-> y_fit(x, f.slope, f.intercept)]
Pipeline(x, y) == PipelineOf(least_squares_fit(x, y), x, y)

SameAsRun(p) ==
    /\ ~p.rejected
    /\ p.error = nonlinearity_error
    /\ p.fitted = y_fit(x_values, slope, intercept)

---------------------------------------------------------------------------
(* The degenerate fit in floating point (specification SpecFl).            *)

\* C2: for a sample set whose x-values are all identical, least_squares_fit
\* does not divide and returns no slope or intercept: the fit is rejected and
\* the run ends with a non-zero status, without report or plot.
C2_IdenticalXRejected ==
    (AllSame(x_values) /\ pc \notin {"loaded", "fit"})
        => /\ pc = "exit"
           /\ exit_status = 1
           /\ slope = None
           /\ intercept = None
           /\ "err_xvar" \in Range(out)
           /\ "report" \notin Range(out)

---------------------------------------------------------------------------
(* Properties of generate_tree (specification SpecTree).                   *)

\* the depth of a path below the root
DepthOf(path) == Len(path) - 1

\* path p comes before path q when the tree is walked parents first,
\* children in ascending name order
WalkedBefore(p, q) ==
    \/ Len(p) < Len(q) /\ SubSeq(q, 1, Len(p)) = p
    \/ \E i \in 1..Len(p) :
          /\ i <= Len(q)
          /\ SubSeq(p, 1, i - 1) = SubSeq(q, 1, i - 1)
          /\ p[i] # q[i]
          /\ NameRank(p[i]) < NameRank(q[i])

RECURSIVE InWalkOrder(_)
\* the paths of S in the order of the walk
InWalkOrder(S) ==
    IF S = {} THEN <<>>
    ELSE LET first == CHOOSE p \in S : \A q \in S \ {p} : WalkedBefore(p, q)
         IN  <<first>> \o InWalkOrder(S \ {first})

\* the entries less than max_depth below the root, in the order of the walk
Listed == InWalkOrder({p \in DOMAIN fs : DepthOf(p) < max_depth})

\* the lines are those of the entries l, one each and in that order
ListingOf(l) ==
    /\ Len(structure_tree) = Len(l)
    /\ \A i \in 1..Len(l) :
          /\ structure_tree[i].indent = 2 * DepthOf(l[i])
          /\ structure_tree[i].name = l[i][Len(l[i])]
          /\ structure_tree[i].dir = (fs[l[i]] = "dir")

\* C10: generate_tree ends and gives exactly one line for each entry whose
\* depth below the root is less than max_depth (none at all when max_depth <=
\* 0), each indented by 2 * depth spaces, a directory before its children and
\* the children in sorted name order.
C10_TreeListing ==
    tpc = "done"
        => /\ Len(structure_tree) = Cardinality({p \in DOMAIN fs : DepthOf(p) < max_depth})
           /\ max_depth <= 0 => structure_tree = <<>>
           /\ ListingOf(Listed)

\* a tree deeper than max_depth, with a directory holding two entries, listed
C10_Witness ==
    /\ tpc = "done"
    /\ max_depth = 2
    /\ \E p \in DOMAIN fs : DepthOf(p) = 2
    /\ \E p \in DOMAIN fs : Append(p, "a") \in DOMAIN fs /\ Append(p, "b") \in DOMAIN fs
    /\ Len(structure_tree) >= 3

=============================================================================
